---------------------------- MODULE Spec2Model ----------------------------
(***************************************************************************)
(* Retrieval / ranking engine of Quilt: HybridVectorSearch (SQLite store,  *)
(* TensorFlow embeddings) and PostgresHybridVectorSearch (PostgreSQL       *)
(* store, Cohere embeddings).                                              *)
(*                                                                         *)
(* Text is a sequence of one-character strings.  Scores are fixed-point    *)
(* integers in millionths (Scale), natural logarithms come from LnTable.   *)
(* Embeddings are integer vectors whose Euclidean norm is an integer, so   *)
(* that the cosine is computed exactly up to the fixed-point floor.        *)
(***************************************************************************)
EXTENDS Integers, Sequences, FiniteSets, TLC

\* ------------------------------------------------------------------ bounds
\* Largest number of rows the documents table holds in a run.
MaxDocs == 2

\* ------------------------------------------------------------ generic helpers
Scale == 1000 * 1000

Get(f, key, default) == IF key \in DOMAIN f THEN f[key] ELSE default

Range(s) == {s[i] : i \in 1..Len(s)}

RECURSIVE SumSeq(_)
SumSeq(s) == IF s = <<>> THEN 0 ELSE Head(s) + SumSeq(Tail(s))

RECURSIVE SumOver(_, _)
SumOver(f, keys) ==
    IF keys = {} THEN 0
    ELSE LET key == CHOOSE x \in keys : TRUE
         IN f[key] + SumOver(f, keys \ {key})

Take(s, n) == SubSeq(s, 1, IF n < Len(s) THEN n ELSE Len(s))

\* ------------------------------------------------------------------- inputs
\* metadata values: a NULL column, the empty dict a result carries for it, and
\* the declarative Base.metadata object that doc.metadata evaluates to
NullMetadata == "NULL"
EmptyMetadata == "{}"
SchemaMetadata == "Base.metadata"

\* "Cat cat dog": a repeated term, an upper-case letter
DocCats == <<"C","a","t"," ","c","a","t"," ","d","o","g">>
\* "cat1": letters next to a digit, so no token; holds "cat" as a substring
DocDigit == <<"c","a","t","1">>

\* metadata given to add_document: a dict, or None
TitleMetadata == "{title: t}"

\* the (content, metadata) pairs that are inserted
Documents == {<<DocCats, TitleMetadata>>, <<DocDigit, NullMetadata>>}

QueryCat == <<"c","a","t">>
\* whitespace only: no token
QueryBlank == <<" "," ">>
\* "cat cat emu": a repeated token and one that matches nothing
QueryRepeat == <<"c","a","t"," ","c","a","t"," ","e","m","u">>

Queries == {QueryCat, QueryBlank, QueryRepeat}

\* result counts asked for, among them k <= 0
Ks == {0 - 1, 0, 1, 2}

\* --------------------------------------------------------------- characters
LowerLetters ==
    {"a","b","c","d","e","f","g","h","i","j","k","l","m",
     "n","o","p","q","r","s","t","u","v","w","x","y","z"}

UpperToLower ==
    [c \in {"A","B","C","D"} |->
        CASE c = "A" -> "a" [] c = "B" -> "b" [] c = "C" -> "c" [] c = "D" -> "d"]

Digits == {"0","1","2","3","4","5","6","7","8","9"}

\* str.lower() on one character
lower_char(c) == IF c \in DOMAIN UpperToLower THEN UpperToLower[c] ELSE c

\* str.lower()
lower_text(text) == [i \in 1..Len(text) |-> lower_char(text[i])]

\* the texts in use, computed once
Texts == {d[1] : d \in Documents} \cup Queries

LowerTable == [text \in Texts |-> lower_text(text)]

\* text.lower()
lower(text) == IF text \in Texts THEN LowerTable[text] ELSE lower_text(text)

\* [a-zA-Z] after lower()
IsLetter(c) == c \in LowerLetters

\* \w of the regular expression: letters, digits and the underscore
IsWordChar(c) == IsLetter(c) \/ c \in Digits \/ c = "_"

\* first position >= i of s that holds no letter (Len(s)+1 when there is none)
RECURSIVE LetterRunEnd(_, _)
LetterRunEnd(s, i) ==
    IF i > Len(s) \/ ~IsLetter(s[i]) THEN i ELSE LetterRunEnd(s, i + 1)

\* re.findall(r'\b[a-zA-Z]+\b', s) scanning from position i.  A match starts
\* at a word boundary on a letter; the greedy run must itself end at a word
\* boundary (a shorter run ends between two letters, where \b never holds).
RECURSIVE findall_words(_, _)
findall_words(s, i) ==
    IF i > Len(s) THEN <<>>
    ELSE IF IsLetter(s[i]) /\ (i = 1 \/ ~IsWordChar(s[i - 1]))
         THEN LET j == LetterRunEnd(s, i)
              IN IF j > Len(s) \/ ~IsWordChar(s[j])
                 THEN <<SubSeq(s, i, j - 1)>> \o findall_words(s, j)
                 ELSE findall_words(s, i + 1)
         ELSE findall_words(s, i + 1)

\* _tokenize, computed from the text
tokenize_text(text) ==
    SelectSeq(findall_words(lower(text), 1), LAMBDA w : Len(w) > 2)

\* the tokens of the texts in use, computed once
TokenTable == [text \in Texts |-> tokenize_text(text)]

\* _tokenize
tokenize(text) ==
    IF text \in Texts THEN TokenTable[text] ELSE tokenize_text(text)

\* collections.Counter(words)
Counter(words) ==
    [w \in Range(words) |-> Cardinality({i \in 1..Len(words) : words[i] = w})]

\* ------------------------------------------------------------ frequency index
\* a defaultdict with no key yet
EmptyDict == <<>>

SetKey(f, key, value) ==
    [x \in DOMAIN f \cup {key} |-> IF x = key THEN value ELSE f[x]]

\* faulty variant of update_frequencies: a term counts for the first document
\* that holds it only
update_frequencies_first_seen(wf, df, content, doc_id) ==
    LET words == tokenize(content)
        word_counts == Counter(words)
    IN  [wf |-> IF words = <<>> THEN wf ELSE SetKey(wf, doc_id, word_counts),
         df |-> [w \in DOMAIN df \cup DOMAIN word_counts |-> 1]]

\* faulty variant of update_frequencies: the document-frequency counter grows
\* by the number of occurrences
update_frequencies_per_occurrence(wf, df, content, doc_id) ==
    LET word_counts == Counter(tokenize(content))
        words == DOMAIN word_counts
        old == Get(wf, doc_id, EmptyDict)
    IN  IF words = {} THEN [wf |-> wf, df |-> df]
        ELSE [wf |-> SetKey(wf, doc_id,
                        [w \in DOMAIN old \cup words |->
                            IF w \in words THEN word_counts[w] ELSE old[w]]),
              df |-> [w \in DOMAIN df \cup words |->
                        Get(df, w, 0) + Get(word_counts, w, 0)]]

\* _update_frequencies: word_frequencies[doc_id][word] = count and
\* document_frequencies[word] += 1 for every distinct word of the content.
\* A content without tokens leaves both dictionaries as they are.
update_frequencies(wf, df, content, doc_id) ==
    LET word_counts == Counter(tokenize(content))
        words == DOMAIN word_counts
        old == Get(wf, doc_id, EmptyDict)
    IN  IF words = {} THEN [wf |-> wf, df |-> df]
        ELSE [wf |-> SetKey(wf, doc_id,
                        [w \in DOMAIN old \cup words |->
                            IF w \in words THEN word_counts[w] ELSE old[w]]),
              df |-> [w \in DOMAIN df \cup words |->
                        Get(df, w, 0) + (IF w \in words THEN 1 ELSE 0)]]

\* ------------------------------------------------------------ lexical scorer
\* ln(n) in millionths, n = 1..8
LnTable == <<0, 693147, 1098612, 1386294, 1609438, 1791759, 1945910, 2079442>>

\* math.log(total_docs / df)
log_ratio(total_docs, df) == LnTable[total_docs] - LnTable[df]

\* the loop of _calculate_tfidf_score over query_words, for one document's
\* counts: score += (count / doc_word_count) * idf for the words the document
\* holds; idf is 0 when the document frequency is 0.
RECURSIVE tfidf_sum(_, _, _, _)
tfidf_sum(query_words, counts, df, total_docs) ==
    IF query_words = <<>> THEN 0
    ELSE LET word == Head(query_words)
             doc_word_count == SumOver(counts, DOMAIN counts)
             dfw == Get(df, word, 0)
             idf == IF dfw > 0 THEN log_ratio(total_docs, dfw) ELSE 0
             term == IF word \in DOMAIN counts
                     THEN (counts[word] * idf) \div doc_word_count
                     ELSE 0
         IN term + tfidf_sum(Tail(query_words), counts, df, total_docs)

\* reading word_frequencies[doc_id] of a defaultdict creates the key
wf_touch(wf, doc_id) ==
    IF doc_id \in DOMAIN wf THEN wf ELSE SetKey(wf, doc_id, EmptyDict)

\* HybridVectorSearch._calculate_tfidf_score: total_docs = len(self.documents).
\* Gives the score and the word_frequencies dictionary after the call.
Sq_calculate_tfidf_score(wf, df, n_documents, query_words, doc_id) ==
    IF query_words = <<>> THEN [score |-> 0, wf |-> wf, total_docs |-> 0]
    ELSE LET wf1 == wf_touch(wf, doc_id)
         IN [score |-> tfidf_sum(query_words, wf1[doc_id], df, n_documents),
             wf |-> wf1, total_docs |-> n_documents]

\* PostgresHybridVectorSearch._calculate_tfidf_score:
\* total_docs = len(self.word_frequencies), read after word_frequencies[doc_id]
\* was touched.
Pg_calculate_tfidf_score(wf, df, query_words, doc_id) ==
    IF query_words = <<>> THEN [score |-> 0, wf |-> wf, total_docs |-> 0]
    ELSE LET wf1 == wf_touch(wf, doc_id)
             total_docs == Cardinality(DOMAIN wf1)
         IN [score |-> tfidf_sum(query_words, wf1[doc_id], df, total_docs),
             wf |-> wf1, total_docs |-> total_docs]

\* word in content_lower (substring containment)
IsSubstring(w, s) ==
    \E i \in 1..(Len(s) - Len(w) + 1) : SubSeq(s, i, i + Len(w) - 1) = w

\* _calculate_keyword_score: matches / len(query_words), 0 for no query words
calculate_keyword_score(query_words, content) ==
    LET content_lower == lower(content)
        matches == Cardinality({i \in 1..Len(query_words) :
                                    IsSubstring(query_words[i], content_lower)})
    IN  IF query_words = <<>> THEN 0
        ELSE (matches * Scale) \div Len(query_words)

\* ------------------------------------------------------------- vector scorer
\* the value of 0.0 / 0.0 in numpy
NaN == 0 - 2 * Scale

Dot(q, d) == SumSeq([i \in 1..Len(q) |-> q[i] * d[i]])

\* np.linalg.norm
Norm(v) ==
    LET sq == Dot(v, v)
    IN  CHOOSE r \in 0..sq : r * r <= sq /\ (r + 1) * (r + 1) > sq

\* faulty variant of cosine_raises: the division by a zero norm raises
cosine_raises_on_zero_norm(q, d) == Len(q) # Len(d) \/ Norm(q) * Norm(d) = 0

\* np.dot(q, d) / (norm(q) * norm(d)); shapes are compared by np.dot
cosine_raises(q, d) == Len(q) # Len(d)

cosine_similarity(q, d) ==
    LET norms == Norm(q) * Norm(d)
    IN  IF norms = 0 THEN NaN ELSE (Dot(q, d) * Scale) \div norms

\* Python's max(0, similarity): a nan never compares greater than 0
max0(similarity) ==
    IF similarity = NaN THEN 0 ELSE IF similarity > 0 THEN similarity ELSE 0

\* x > t for a float x that may be nan
gt(x, t) == x # NaN /\ x > t

\* ------------------------------------------------------------ ranking policy
\* weights of HybridVectorSearch._hybrid_embedding_search, in percent
SqVectorWeight == 60
SqTfidfWeight == 25
SqKeywordWeight == 15

\* weights of PostgresHybridVectorSearch._hybrid_embedding_search, in percent
PgVectorWeight == 70
PgTfidfWeight == 20
PgKeywordWeight == 10

\* weights of _tfidf_keyword_search, in percent
LexTfidfWeight == 70
LexKeywordWeight == 30

\* combined_score > 0.1 and similarity > 0.1, in percent
MinScorePercent == 10

\* combined_score > 0 and score > 0
MinLexicalScore == 0

MinVectorScore == (MinScorePercent * Scale) \div 100

\* faulty variant of keeps_hybrid: the comparison admits the threshold itself
keeps_hybrid_at_threshold(score) == score >= MinVectorScore

\* if combined_score > 0.1 / if similarity > 0.1
keeps_hybrid(score) == gt(score, MinVectorScore)

\* if combined_score > 0 / if score > 0
keeps_lexical(score) == score > MinLexicalScore

\* one step of a stable sort by score, descending: r goes behind every result
\* whose score is not smaller
\* faulty variant of insert_desc: a result goes in front of the results of
\* equal score
RECURSIVE insert_desc_before_ties(_, _)
insert_desc_before_ties(sorted, r) ==
    IF sorted = <<>> THEN <<r>>
    ELSE IF Head(sorted).score > r.score
         THEN <<Head(sorted)>> \o insert_desc_before_ties(Tail(sorted), r)
         ELSE <<r>> \o sorted

RECURSIVE insert_desc(_, _)
insert_desc(sorted, r) ==
    IF sorted = <<>> THEN <<r>>
    ELSE IF Head(sorted).score >= r.score
         THEN <<Head(sorted)>> \o insert_desc(Tail(sorted), r)
         ELSE <<r>> \o sorted

\* results.sort(key=lambda x: x['score'], reverse=True)
RECURSIVE sort_by_score(_)
sort_by_score(results) ==
    IF results = <<>> THEN <<>>
    ELSE insert_desc(sort_by_score(SubSeq(results, 1, Len(results) - 1)),
                     results[Len(results)])

\* faulty variant of truncate: one result too many
truncate_off_by_one(results, k) ==
    LET n == Len(results)
        stop == IF k + 1 >= 0 THEN (IF k + 1 < n THEN k + 1 ELSE n)
                ELSE (IF n + k + 1 > 0 THEN n + k + 1 ELSE 0)
    IN  SubSeq(results, 1, stop)

\* results[:k]: a negative k counts from the end of the list
truncate(results, k) ==
    LET n == Len(results)
        stop == IF k >= 0 THEN (IF k < n THEN k ELSE n)
                ELSE (IF n + k > 0 THEN n + k ELSE 0)
    IN  SubSeq(results, 1, stop)

\* ------------------------------------------------------------ stored values
\* a NULL embedding column (and every falsy blob)
NoEmbedding == <<>>

\* json.loads(metadata_str) if metadata_str else {} ; doc.doc_metadata or {}
metadata_or_empty(m) == IF m = NullMetadata THEN EmptyMetadata ELSE m

\* the row with the given id (SELECT ... WHERE id = ?)
row_of(rows, doc_id) ==
    rows[CHOOSE i \in 1..Len(rows) : rows[i].id = doc_id]

\* WHERE embedding IS NOT NULL / filter(Document.embedding.isnot(None))
with_embedding(rows) == SelectSeq(rows, LAMBDA r : r.embedding # NoEmbedding)

\* the embedding model: text -> vector.  An external capability; the table
\* fixes one deterministic answer per text.
embed(text) ==
    CASE text = DocCats -> <<3, 4>>
      [] text = DocDigit -> <<0, 5>>
      [] text = QueryCat -> <<5, 0>>
      [] text = QueryBlank -> <<0, 5>>
      [] text = QueryRepeat -> <<0 - 3, 4>>
      [] OTHER -> <<3, 4>>

\* the embedding another writer of the documents table computes with a model
\* of its own (embed-english-v3.0 in the indexer scripts, while the engine
\* uses embed-english-light-v3.0): a vector of another length
generate_embedding(text) == <<0, 3, 4>>

\* a stored vector whose components are all 0.0
ZeroEmbedding == <<0, 0>>

\* ------------------------------------------------ TensorFlowEmbeddings (SQLite)
\* faulty variant of Sq_load_tensorflow: a failed load is tried again
Sq_load_tensorflow_retry(em, env, call_ok) ==
    IF em = "model" THEN em
    ELSE IF env = "yes" /\ call_ok THEN "model" ELSE "no_model"

\* self.model / self._tf_loaded : "unloaded" (None, False), "model" (loaded,
\* True), "no_model" (None, True)
\* _load_tensorflow: loads once; a failed load is never tried again
Sq_load_tensorflow(em, env, call_ok) ==
    IF em # "unloaded" THEN em
    ELSE IF env = "yes" /\ call_ok THEN "model" ELSE "no_model"

\* TensorFlowEmbeddings.encode: the embedding (NoEmbedding for None) and the
\* model state after the call
Sq_encode(em, env, call_ok, text) ==
    LET em1 == Sq_load_tensorflow(em, env, call_ok)
    IN  [em |-> em1,
         embedding |-> IF em1 = "model" /\ call_ok THEN embed(text)
                       ELSE NoEmbedding]

\* ------------------------------------------------- HybridVectorSearch (SQLite)
\* _get_metadata: {} when the row has no metadata or the store cannot be read
Sq_get_metadata(rows, db_ok, doc_id) ==
    IF db_ok /\ (\E i \in 1..Len(rows) : rows[i].id = doc_id)
    THEN metadata_or_empty(row_of(rows, doc_id).metadata)
    ELSE EmptyMetadata

\* the loop of _tfidf_keyword_search over self.documents
RECURSIVE Sq_lexical_loop(_, _, _, _, _, _, _)
Sq_lexical_loop(docs, n_documents, query_words, wf, df, rows, db_ok) ==
    IF docs = <<>> THEN [results |-> <<>>, wf |-> wf, total_docs |-> <<>>]
    ELSE LET doc_id == Head(docs)[1]
             content == Head(docs)[2]
             tfidf == Sq_calculate_tfidf_score(wf, df, n_documents,
                                               query_words, doc_id)
             keyword_score == calculate_keyword_score(query_words, content)
             combined_score == (LexTfidfWeight * tfidf.score
                                + LexKeywordWeight * keyword_score) \div 100
             rest == Sq_lexical_loop(Tail(docs), n_documents, query_words,
                                     tfidf.wf, df, rows, db_ok)
             hit == [id |-> doc_id, score |-> combined_score,
                     metadata |-> Sq_get_metadata(rows, db_ok, doc_id),
                     search_type |-> "hybrid_tfidf"]
         IN [results |-> IF keeps_lexical(combined_score)
                         THEN <<hit>> \o rest.results ELSE rest.results,
             wf |-> rest.wf,
             total_docs |-> <<tfidf.total_docs>> \o rest.total_docs]

\* HybridVectorSearch._tfidf_keyword_search
Sq_tfidf_keyword_search(documents, wf, df, rows, db_ok, query, k) ==
    LET query_words == tokenize(query)
        scan == Sq_lexical_loop(documents, Len(documents), query_words,
                                wf, df, rows, db_ok)
        ranked == sort_by_score(scan.results)
    IN  IF query_words = <<>>
        THEN [path |-> "lexical", ranked |-> <<>>, results |-> <<>>, wf |-> wf]
        ELSE [path |-> "lexical", ranked |-> ranked,
              results |-> truncate(ranked, k), wf |-> scan.wf]

\* the loop of _hybrid_embedding_search over the rows of the documents table
RECURSIVE Sq_hybrid_loop(_, _, _, _, _, _)
Sq_hybrid_loop(rows, query_embedding, query_words, wf, df, n_documents) ==
    IF rows = <<>> THEN [results |-> <<>>, wf |-> wf, raised |-> FALSE]
    ELSE LET row == Head(rows)
             has_blob == row.embedding # NoEmbedding
         IN IF has_blob /\ cosine_raises(query_embedding, row.embedding)
            THEN [results |-> <<>>, wf |-> wf, raised |-> TRUE]
            ELSE
            LET vector_score ==
                    IF has_blob
                    THEN max0(cosine_similarity(query_embedding, row.embedding))
                    ELSE 0
                tfidf == Sq_calculate_tfidf_score(wf, df, n_documents,
                                                  query_words, row.id)
                keyword_score == calculate_keyword_score(query_words, row.content)
                combined_score == (SqVectorWeight * vector_score
                                   + SqTfidfWeight * tfidf.score
                                   + SqKeywordWeight * keyword_score) \div 100
                rest == Sq_hybrid_loop(Tail(rows), query_embedding, query_words,
                                       tfidf.wf, df, n_documents)
                hit == [id |-> row.id, score |-> combined_score,
                        metadata |-> metadata_or_empty(row.metadata),
                        search_type |-> "hybrid_tensorflow"]
            IN [results |-> IF keeps_hybrid(combined_score)
                            THEN <<hit>> \o rest.results ELSE rest.results,
                wf |-> rest.wf, raised |-> rest.raised]

\* faulty variant of Sq_hybrid_embedding_search: after an exception while
\* scoring, the hybrid results collected so far stay in the list
Sq_hybrid_embedding_search_keep_partial(em, env, call_ok, documents, wf, df, rows, db_ok, query, k) ==
    LET enc == Sq_encode(em, env, call_ok, query)
        query_words == tokenize(query)
        scan == Sq_hybrid_loop(rows, enc.embedding, query_words, wf, df,
                               Len(documents))
        ranked == sort_by_score(scan.results)
        fallback == Sq_tfidf_keyword_search(documents, scan.wf, df, rows,
                                            db_ok, query, k)
        mixed == sort_by_score(scan.results \o fallback.ranked)
    IN  IF enc.embedding = NoEmbedding
        THEN Sq_tfidf_keyword_search(documents, wf, df, rows, db_ok, query, k)
               @@ [em |-> enc.em]
        ELSE IF ~db_ok
        THEN Sq_tfidf_keyword_search(documents, wf, df, rows, db_ok, query, k)
               @@ [em |-> enc.em]
        ELSE IF scan.raised
        THEN [path |-> "lexical", ranked |-> mixed,
              results |-> truncate(mixed, k), wf |-> fallback.wf,
              em |-> enc.em]
        ELSE [path |-> "hybrid", ranked |-> ranked,
              results |-> truncate(ranked, k), wf |-> scan.wf, em |-> enc.em]

\* HybridVectorSearch._hybrid_embedding_search: no query embedding, an
\* unreadable store or an exception while scoring end in _tfidf_keyword_search
Sq_hybrid_embedding_search(em, env, call_ok, documents, wf, df, rows, db_ok, query, k) ==
    LET enc == Sq_encode(em, env, call_ok, query)
        query_words == tokenize(query)
        scan == Sq_hybrid_loop(rows, enc.embedding, query_words, wf, df,
                               Len(documents))
        ranked == sort_by_score(scan.results)
    IN  IF enc.embedding = NoEmbedding
        THEN Sq_tfidf_keyword_search(documents, wf, df, rows, db_ok, query, k)
               @@ [em |-> enc.em]
        ELSE IF ~db_ok
        THEN Sq_tfidf_keyword_search(documents, wf, df, rows, db_ok, query, k)
               @@ [em |-> enc.em]
        ELSE IF scan.raised
        THEN Sq_tfidf_keyword_search(documents, scan.wf, df, rows, db_ok,
                                     query, k) @@ [em |-> enc.em]
        ELSE [path |-> "hybrid", ranked |-> ranked,
              results |-> truncate(ranked, k), wf |-> scan.wf, em |-> enc.em]

\* HybridVectorSearch.search_similar: the hybrid path only when the model
\* attribute is already set
Sq_search_similar(em, env, call_ok, documents, wf, df, rows, db_ok, query, k) ==
    IF documents = <<>>
    THEN [path |-> "empty", ranked |-> <<>>, results |-> <<>>, wf |-> wf,
          em |-> em]
    ELSE IF em = "model"
    THEN Sq_hybrid_embedding_search(em, env, call_ok, documents, wf, df, rows,
                                    db_ok, query, k)
    ELSE Sq_tfidf_keyword_search(documents, wf, df, rows, db_ok, query, k)
           @@ [em |-> em]

\* the loop of keyword_search over self.documents
RECURSIVE Sq_keyword_loop(_, _, _, _)
Sq_keyword_loop(docs, query_words, rows, db_ok) ==
    IF docs = <<>> THEN <<>>
    ELSE LET doc_id == Head(docs)[1]
             score == calculate_keyword_score(query_words, Head(docs)[2])
             rest == Sq_keyword_loop(Tail(docs), query_words, rows, db_ok)
             hit == [id |-> doc_id, score |-> score,
                     metadata |-> Sq_get_metadata(rows, db_ok, doc_id),
                     search_type |-> "keyword"]
         IN IF keeps_lexical(score) THEN <<hit>> \o rest ELSE rest

\* HybridVectorSearch.keyword_search
Sq_keyword_search(documents, rows, db_ok, query, k) ==
    LET ranked == sort_by_score(
                      Sq_keyword_loop(documents, tokenize(query), rows, db_ok))
    IN  IF documents = <<>>
        THEN [path |-> "empty", ranked |-> <<>>, results |-> <<>>]
        ELSE [path |-> "keyword", ranked |-> ranked,
              results |-> truncate(ranked, k)]

\* faulty variant of Sq_vector_loop: the similarity is weighted as in the
\* hybrid blend before it is compared and reported
RECURSIVE Sq_vector_loop_weighted(_, _)
Sq_vector_loop_weighted(rows, query_embedding) ==
    IF rows = <<>> THEN [results |-> <<>>, raised |-> FALSE]
    ELSE LET row == Head(rows)
         IN IF row.embedding = NoEmbedding
            THEN Sq_vector_loop_weighted(Tail(rows), query_embedding)
            ELSE IF cosine_raises(query_embedding, row.embedding)
            THEN [results |-> <<>>, raised |-> TRUE]
            ELSE
            LET similarity ==
                    (SqVectorWeight
                       * max0(cosine_similarity(query_embedding, row.embedding)))
                    \div 100
                rest == Sq_vector_loop_weighted(Tail(rows), query_embedding)
                hit == [id |-> row.id, score |-> similarity,
                        metadata |-> metadata_or_empty(row.metadata),
                        search_type |-> "vector_tensorflow"]
            IN [results |-> IF keeps_hybrid(similarity)
                            THEN <<hit>> \o rest.results ELSE rest.results,
                raised |-> rest.raised]

\* the loop of vector_search over the rows that hold an embedding
RECURSIVE Sq_vector_loop(_, _)
Sq_vector_loop(rows, query_embedding) ==
    IF rows = <<>> THEN [results |-> <<>>, raised |-> FALSE]
    ELSE LET row == Head(rows)
         IN IF row.embedding = NoEmbedding
            THEN Sq_vector_loop(Tail(rows), query_embedding)
            ELSE IF cosine_raises(query_embedding, row.embedding)
            THEN [results |-> <<>>, raised |-> TRUE]
            ELSE
            LET similarity == cosine_similarity(query_embedding, row.embedding)
                rest == Sq_vector_loop(Tail(rows), query_embedding)
                hit == [id |-> row.id, score |-> similarity,
                        metadata |-> metadata_or_empty(row.metadata),
                        search_type |-> "vector_tensorflow"]
            IN [results |-> IF keeps_hybrid(similarity)
                            THEN <<hit>> \o rest.results ELSE rest.results,
                raised |-> rest.raised]

\* HybridVectorSearch.vector_search: without a query embedding, and on any
\* exception, the answer is that of search_similar
Sq_vector_search(em, env, call_ok, documents, wf, df, rows, db_ok, query, k) ==
    LET enc == Sq_encode(em, env, call_ok, query)
        scan == Sq_vector_loop(with_embedding(rows), enc.embedding)
        ranked == sort_by_score(scan.results)
    IN  IF enc.embedding = NoEmbedding \/ ~db_ok \/ scan.raised
        THEN Sq_search_similar(enc.em, env, call_ok, documents, wf, df, rows,
                               db_ok, query, k)
        ELSE [path |-> "vector", ranked |-> ranked,
              results |-> truncate(ranked, k), wf |-> wf, em |-> enc.em]

\* ---------------------------------------------------- CohereEmbeddings (Postgres)
\* self.embedding_model: "unset" (None), "client" (CohereEmbeddings with a
\* client), "no_client" (CohereEmbeddings whose client is None, or the
\* DummyEmbeddings object, whose client is None too)
\* get_embedding_model: the first call decides, later calls return the same
Pg_get_embedding_model(em, env) ==
    IF em # "unset" THEN em
    ELSE IF env = "yes" THEN "client" ELSE "no_client"

\* CohereEmbeddings.encode / encode_query, DummyEmbeddings.encode: None
\* without a client and when the API call fails
Pg_encode(em, call_ok, text) ==
    IF em = "client" /\ call_ok THEN embed(text) ELSE NoEmbedding

\* --------------------------------------- PostgresHybridVectorSearch (Postgres)
\* the loop of _tfidf_keyword_search over db.query(Document).all()
RECURSIVE Pg_lexical_loop(_, _, _, _)
Pg_lexical_loop(rows, query_words, wf, df) ==
    IF rows = <<>> THEN [results |-> <<>>, wf |-> wf, total_docs |-> <<>>]
    ELSE LET doc == Head(rows)
             tfidf == Pg_calculate_tfidf_score(wf, df, query_words, doc.id)
             keyword_score == calculate_keyword_score(query_words, doc.content)
             combined_score == (LexTfidfWeight * tfidf.score
                                + LexKeywordWeight * keyword_score) \div 100
             rest == Pg_lexical_loop(Tail(rows), query_words, tfidf.wf, df)
             hit == [id |-> doc.id, score |-> combined_score,
                     metadata |-> SchemaMetadata,
                     search_type |-> "hybrid_tfidf"]
         IN [results |-> IF keeps_lexical(combined_score)
                         THEN <<hit>> \o rest.results ELSE rest.results,
             wf |-> rest.wf,
             total_docs |-> <<tfidf.total_docs>> \o rest.total_docs]

\* faulty variant of Pg_tfidf_keyword_search: the rows are fetched before the
\* query words are looked at
Pg_tfidf_keyword_search_fetch_first(wf, df, rows, db_ok, query, k) ==
    LET query_words == tokenize(query)
        scan == Pg_lexical_loop(rows, query_words, wf, df)
        ranked == sort_by_score(scan.results)
    IN  IF ~db_ok
        THEN [path |-> "raised", ranked |-> <<>>, results |-> <<>>,
              wf |-> wf, raised |-> TRUE]
        ELSE IF query_words = <<>>
        THEN [path |-> "lexical", ranked |-> <<>>, results |-> <<>>,
              wf |-> wf, raised |-> FALSE]
        ELSE [path |-> "lexical", ranked |-> ranked,
              results |-> truncate(ranked, k), wf |-> scan.wf,
              raised |-> FALSE]

\* PostgresHybridVectorSearch._tfidf_keyword_search: a failing fetch is not
\* caught
Pg_tfidf_keyword_search(wf, df, rows, db_ok, query, k) ==
    LET query_words == tokenize(query)
        scan == Pg_lexical_loop(rows, query_words, wf, df)
        ranked == sort_by_score(scan.results)
    IN  IF query_words = <<>>
        THEN [path |-> "lexical", ranked |-> <<>>, results |-> <<>>,
              wf |-> wf, raised |-> FALSE]
        ELSE IF ~db_ok
        THEN [path |-> "raised", ranked |-> <<>>, results |-> <<>>,
              wf |-> wf, raised |-> TRUE]
        ELSE [path |-> "lexical", ranked |-> ranked,
              results |-> truncate(ranked, k), wf |-> scan.wf,
              raised |-> FALSE]

\* the loop of _hybrid_embedding_search over the rows it fetched
RECURSIVE Pg_hybrid_loop(_, _, _, _, _)
Pg_hybrid_loop(rows, query_embedding, query_words, wf, df) ==
    IF rows = <<>> THEN [results |-> <<>>, wf |-> wf, raised |-> FALSE]
    ELSE LET doc == Head(rows)
             has_blob == doc.embedding # NoEmbedding
         IN IF has_blob /\ cosine_raises(query_embedding, doc.embedding)
            THEN [results |-> <<>>, wf |-> wf, raised |-> TRUE]
            ELSE
            LET vector_score ==
                    IF has_blob
                    THEN max0(cosine_similarity(query_embedding, doc.embedding))
                    ELSE 0
                tfidf == Pg_calculate_tfidf_score(wf, df, query_words, doc.id)
                keyword_score == calculate_keyword_score(query_words, doc.content)
                combined_score == (PgVectorWeight * vector_score
                                   + PgTfidfWeight * tfidf.score
                                   + PgKeywordWeight * keyword_score) \div 100
                rest == Pg_hybrid_loop(Tail(rows), query_embedding, query_words,
                                       tfidf.wf, df)
                hit == [id |-> doc.id, score |-> combined_score,
                        metadata |-> metadata_or_empty(doc.metadata),
                        search_type |-> "hybrid_cohere"]
            IN [results |-> IF keeps_hybrid(combined_score)
                            THEN <<hit>> \o rest.results ELSE rest.results,
                wf |-> rest.wf, raised |-> rest.raised]

\* PostgresHybridVectorSearch._hybrid_embedding_search: only the rows with an
\* embedding are fetched
Pg_hybrid_embedding_search(em, call_ok, wf, df, rows, db_ok, query, k) ==
    LET query_embedding == Pg_encode(em, call_ok, query)
        query_words == tokenize(query)
        scan == Pg_hybrid_loop(with_embedding(rows), query_embedding,
                               query_words, wf, df)
        ranked == sort_by_score(scan.results)
    IN  IF query_embedding = NoEmbedding \/ ~db_ok
        THEN Pg_tfidf_keyword_search(wf, df, rows, db_ok, query, k)
        ELSE IF scan.raised
        THEN Pg_tfidf_keyword_search(scan.wf, df, rows, db_ok, query, k)
        ELSE [path |-> "hybrid", ranked |-> ranked,
              results |-> truncate(ranked, k), wf |-> scan.wf,
              raised |-> FALSE]

\* PostgresHybridVectorSearch.search_similar
Pg_search_similar(em, env, call_ok, wf, df, rows, db_ok, query, k) ==
    LET em1 == Pg_get_embedding_model(em, env)
    IN  (IF em1 = "client"
         THEN Pg_hybrid_embedding_search(em1, call_ok, wf, df, rows, db_ok,
                                         query, k)
         ELSE Pg_tfidf_keyword_search(wf, df, rows, db_ok, query, k))
        @@ [em |-> em1]

\* the loop of keyword_search over db.query(Document).all()
RECURSIVE Pg_keyword_loop(_, _)
Pg_keyword_loop(rows, query_words) ==
    IF rows = <<>> THEN <<>>
    ELSE LET doc == Head(rows)
             score == calculate_keyword_score(query_words, doc.content)
             rest == Pg_keyword_loop(Tail(rows), query_words)
             hit == [id |-> doc.id, score |-> score,
                     metadata |-> SchemaMetadata, search_type |-> "keyword"]
         IN IF keeps_lexical(score) THEN <<hit>> \o rest ELSE rest

\* PostgresHybridVectorSearch.keyword_search
Pg_keyword_search(rows, db_ok, query, k) ==
    LET ranked == sort_by_score(Pg_keyword_loop(rows, tokenize(query)))
    IN  IF ~db_ok
        THEN [path |-> "raised", ranked |-> <<>>, results |-> <<>>,
              raised |-> TRUE]
        ELSE [path |-> "keyword", ranked |-> ranked,
              results |-> truncate(ranked, k), raised |-> FALSE]

\* the loop of vector_search over the rows that hold an embedding
RECURSIVE Pg_vector_loop(_, _)
Pg_vector_loop(rows, query_embedding) ==
    IF rows = <<>> THEN [results |-> <<>>, raised |-> FALSE]
    ELSE LET doc == Head(rows)
         IN IF doc.embedding = NoEmbedding
            THEN Pg_vector_loop(Tail(rows), query_embedding)
            ELSE IF cosine_raises(query_embedding, doc.embedding)
            THEN [results |-> <<>>, raised |-> TRUE]
            ELSE
            LET similarity == cosine_similarity(query_embedding, doc.embedding)
                rest == Pg_vector_loop(Tail(rows), query_embedding)
                hit == [id |-> doc.id, score |-> similarity,
                        metadata |-> metadata_or_empty(doc.metadata),
                        search_type |-> "vector_cohere"]
            IN [results |-> IF keeps_hybrid(similarity)
                            THEN <<hit>> \o rest.results ELSE rest.results,
                raised |-> rest.raised]

\* PostgresHybridVectorSearch.vector_search
Pg_vector_search(em, env, call_ok, wf, df, rows, db_ok, query, k) ==
    LET em1 == Pg_get_embedding_model(em, env)
        query_embedding == Pg_encode(em1, call_ok, query)
        scan == Pg_vector_loop(with_embedding(rows), query_embedding)
        ranked == sort_by_score(scan.results)
    IN  IF query_embedding = NoEmbedding \/ ~db_ok \/ scan.raised
        THEN Pg_search_similar(em1, env, call_ok, wf, df, rows, db_ok, query, k)
        ELSE [path |-> "vector", ranked |-> ranked,
              results |-> truncate(ranked, k), wf |-> wf, raised |-> FALSE,
              em |-> em1]

\* ------------------------------------------------------- index construction
\* _load_existing_documents of either engine: every row of the table, by id,
\* goes through _update_frequencies (and, in HybridVectorSearch, into
\* self.documents)
RECURSIVE load_existing_documents(_, _, _, _)
load_existing_documents(rows, documents, wf, df) ==
    IF rows = <<>> THEN [documents |-> documents, wf |-> wf, df |-> df]
    ELSE LET row == Head(rows)
             upd == update_frequencies(wf, df, row.content, row.id)
         IN load_existing_documents(Tail(rows),
                Append(documents, <<row.id, row.content>>), upd.wf, upd.df)

\* --------------------------------------------------------------------- state
VARIABLES
    impl,                  \* "sqlite": HybridVectorSearch, "postgres": PostgresHybridVectorSearch
    provider_env,          \* "yes": the embedding backend is installed and configured
                           \* (TensorFlow importable, COHERE_API_KEY set); "no" otherwise
    store,                 \* the rows of the documents table, by id
    documents,             \* self.documents, a list of (id, content) (HybridVectorSearch only)
    word_frequencies,      \* self.word_frequencies: doc id -> (word -> count)
    document_frequencies,  \* self.document_frequencies: word -> count
    embedding_model,       \* the state of self.embedding_model
    last,                  \* the last call on the engine and what it returned
    in_flight,             \* the add_document calls in progress, by caller
    response               \* the plugin's answer to the HTTP request being served

vars == <<impl, provider_env, store, documents, word_frequencies,
          document_frequencies, embedding_model, last, in_flight, response>>

NoCall ==
    [op |-> "init", query |-> <<>>, k |-> 0, able |-> FALSE, db_ok |-> TRUE,
     raised |-> FALSE, path |-> "none", ranked |-> <<>>, results |-> <<>>,
     doc_id |-> 0]

SearchOps == {"search_similar", "vector_search", "keyword_search"}

\* the provider can produce an embedding in a call whose API / model call works
Able(call_ok) == provider_env = "yes" /\ call_ok

\* how a call to the backend can end: it fails, or, with a backend that is
\* there, it works
CallOutcomes == IF provider_env = "yes" THEN BOOLEAN ELSE {FALSE}

next_id == Len(store) + 1

\* no HTTP request is being served
NoResponse ==
    [method |-> "none", query |-> <<>>, max_results |-> 0, status |-> 0,
     detail |-> "", engine_called |-> FALSE]

\* __init__ of either engine over the table as it is
Construct(rows) ==
    LET loaded == load_existing_documents(rows, <<>>, EmptyDict, EmptyDict)
    IN  /\ documents' = (IF impl = "sqlite" THEN loaded.documents ELSE <<>>)
        /\ word_frequencies' = loaded.wf
        /\ document_frequencies' = loaded.df
        /\ embedding_model' = (IF impl = "sqlite" THEN "unloaded" ELSE "unset")
        /\ last' = NoCall

Init ==
    /\ impl \in {"sqlite", "postgres"}
    /\ provider_env \in {"yes", "no"}
    /\ store = <<>>
    /\ documents = <<>>
    /\ word_frequencies = EmptyDict
    /\ document_frequencies = EmptyDict
    /\ embedding_model = (IF impl = "sqlite" THEN "unloaded" ELSE "unset")
    /\ last = NoCall
    /\ in_flight = EmptyDict
    /\ response = NoResponse

\* a new engine instance is constructed over the same table (process restart)
Restart ==
    /\ last = NoCall
    /\ store # <<>>
    /\ Construct(store)
    /\ UNCHANGED <<impl, provider_env, store, in_flight, response>>

\* faulty variant of Sq_add_document: a failed INSERT is swallowed, the
\* document is indexed in memory and the call returns an id
Sq_add_document_swallow(content, metadata, call_ok, write_ok) ==
    LET enc == Sq_encode(embedding_model, provider_env, call_ok, content)
        doc_id == next_id
        upd == update_frequencies(word_frequencies, document_frequencies,
                                  content, doc_id)
    IN  /\ impl = "sqlite"
        /\ embedding_model' = enc.em
        /\ store' = IF write_ok
                    THEN Append(store, [id |-> doc_id, content |-> content,
                                        embedding |-> enc.embedding,
                                        metadata |-> metadata])
                    ELSE store
        /\ documents' = Append(documents, <<doc_id, content>>)
        /\ word_frequencies' = upd.wf
        /\ document_frequencies' = upd.df
        /\ last' = [NoCall EXCEPT !.op = "add_document",
                                  !.able = Able(call_ok),
                                  !.db_ok = write_ok,
                                  !.doc_id = doc_id]
        /\ UNCHANGED <<impl, provider_env, in_flight, response>>

\* HybridVectorSearch.add_document.  write_ok = FALSE: the INSERT fails and
\* the exception leaves the method.
Sq_add_document(content, metadata, call_ok, write_ok) ==
    LET enc == Sq_encode(embedding_model, provider_env, call_ok, content)
        doc_id == next_id
        upd == update_frequencies(word_frequencies, document_frequencies,
                                  content, doc_id)
    IN  /\ impl = "sqlite"
        /\ embedding_model' = enc.em
        /\ IF write_ok
           THEN /\ store' = Append(store, [id |-> doc_id, content |-> content,
                                           embedding |-> enc.embedding,
                                           metadata |-> metadata])
                /\ documents' = Append(documents, <<doc_id, content>>)
                /\ word_frequencies' = upd.wf
                /\ document_frequencies' = upd.df
                /\ last' = [NoCall EXCEPT !.op = "add_document",
                                          !.able = Able(call_ok),
                                          !.doc_id = doc_id]
           ELSE /\ UNCHANGED <<store, documents, word_frequencies,
                               document_frequencies>>
                /\ last' = [NoCall EXCEPT !.op = "add_document",
                                          !.able = Able(call_ok),
                                          !.db_ok = FALSE, !.raised = TRUE]
        /\ UNCHANGED <<impl, provider_env, in_flight, response>>

\* faulty variant of Pg_add_document: a document that got no embedding is
\* stored but not indexed
Pg_add_document_skip_index(content, metadata, call_ok, fault) ==
    LET em1 == Pg_get_embedding_model(embedding_model, provider_env)
        embedding == Pg_encode(em1, call_ok, content)
        doc_id == next_id
        indexed == fault = "none" /\ embedding # NoEmbedding
        upd == update_frequencies(word_frequencies, document_frequencies,
                                  content, doc_id)
    IN  /\ impl = "postgres"
        /\ embedding_model' = em1
        /\ store' = IF fault = "commit" THEN store
                    ELSE Append(store, [id |-> doc_id, content |-> content,
                                        embedding |-> embedding,
                                        metadata |-> metadata])
        /\ word_frequencies' = IF indexed THEN upd.wf ELSE word_frequencies
        /\ document_frequencies' =
               IF indexed THEN upd.df ELSE document_frequencies
        /\ last' = [NoCall EXCEPT !.op = "add_document",
                                  !.able = Able(call_ok),
                                  !.db_ok = (fault = "none"),
                                  !.raised = (fault # "none"),
                                  !.doc_id = IF fault = "none" THEN doc_id ELSE 0]
        /\ UNCHANGED <<impl, provider_env, documents, in_flight, response>>

\* PostgresHybridVectorSearch.add_document.  fault = "commit": db.commit()
\* fails, nothing is stored; fault = "refresh": the row is committed and
\* db.refresh(doc) fails, so _update_frequencies is not reached; both raise.
Pg_add_document(content, metadata, call_ok, fault) ==
    LET em1 == Pg_get_embedding_model(embedding_model, provider_env)
        embedding == Pg_encode(em1, call_ok, content)
        doc_id == next_id
        upd == update_frequencies(word_frequencies, document_frequencies,
                                  content, doc_id)
    IN  /\ impl = "postgres"
        /\ embedding_model' = em1
        /\ store' = IF fault = "commit" THEN store
                    ELSE Append(store, [id |-> doc_id, content |-> content,
                                        embedding |-> embedding,
                                        metadata |-> metadata])
        /\ word_frequencies' = IF fault = "none" THEN upd.wf ELSE word_frequencies
        /\ document_frequencies' =
               IF fault = "none" THEN upd.df ELSE document_frequencies
        /\ last' = [NoCall EXCEPT !.op = "add_document",
                                  !.able = Able(call_ok),
                                  !.db_ok = (fault = "none"),
                                  !.raised = (fault # "none"),
                                  !.doc_id = IF fault = "none" THEN doc_id ELSE 0]
        /\ UNCHANGED <<impl, provider_env, documents, in_flight, response>>

AddDocument ==
    /\ last = NoCall
    /\ Len(store) < MaxDocs
    /\ \E doc \in Documents, call_ok \in CallOutcomes :
          \/ \E write_ok \in BOOLEAN :
                Sq_add_document(doc[1], doc[2], call_ok, write_ok)
          \/ \E fault \in {"none", "commit", "refresh"} :
                Pg_add_document(doc[1], doc[2], call_ok, fault)

\* the embedding column of a row written by another writer: NULL, or, drawn
\* for one content, a vector copied from a corpus of the engine or a vector
\* of the writer's own model, and, for the other, a blob of zeros
foreign_embeddings(content) ==
    {NoEmbedding}
      \cup (IF content = DocCats
            THEN {embed(content), generate_embedding(content)}
            ELSE {ZeroEmbedding})

\* another writer of the documents table (EnhancedHTMLParser.add_document and
\* the indexer scripts): a row appears, the engine is not told
ForeignInsert ==
    /\ last = NoCall
    /\ Len(store) < MaxDocs
    /\ \E doc \in Documents : \E embedding \in foreign_embeddings(doc[1]) :
          store' = Append(store, [id |-> next_id, content |-> doc[1],
                                  embedding |-> embedding,
                                  metadata |-> doc[2]])
    /\ UNCHANGED <<impl, provider_env, documents, word_frequencies,
                   document_frequencies, embedding_model, last, in_flight, response>>

\* the embedding backend becomes available while the instance lives: the
\* package is installed, COHERE_API_KEY is set
ProviderConfigured ==
    /\ last = NoCall
    /\ provider_env = "no"
    /\ provider_env' = "yes"
    /\ UNCHANGED <<impl, store, documents, word_frequencies,
                   document_frequencies, embedding_model, last, in_flight, response>>

\* what a search call leaves behind
Returned(op, query, k, call_ok, db_ok, res) ==
    /\ last = NoCall
    /\ \E r \in {res} :
          /\ word_frequencies' = r.wf
          /\ embedding_model' = r.em
          /\ last' = [NoCall EXCEPT !.op = op, !.query = query, !.k = k,
                                    !.able = Able(call_ok), !.db_ok = db_ok,
                                    !.raised = r.raised, !.path = r.path,
                                    !.ranked = r.ranked, !.results = r.results]
    /\ UNCHANGED <<impl, provider_env, store, documents, document_frequencies,
                   in_flight>>

\* search_similar(query, k) of the engine in use
search_similar(query, k, call_ok, db_ok) ==
    IF impl = "sqlite"
    THEN Sq_search_similar(embedding_model, provider_env, call_ok, documents,
                           word_frequencies, document_frequencies, store,
                           db_ok, query, k) @@ [raised |-> FALSE]
    ELSE Pg_search_similar(embedding_model, provider_env, call_ok,
                           word_frequencies, document_frequencies, store,
                           db_ok, query, k)

\* vector_search(query, k) of the engine in use
vector_search(query, k, call_ok, db_ok) ==
    IF impl = "sqlite"
    THEN Sq_vector_search(embedding_model, provider_env, call_ok, documents,
                          word_frequencies, document_frequencies, store,
                          db_ok, query, k) @@ [raised |-> FALSE]
    ELSE Pg_vector_search(embedding_model, provider_env, call_ok,
                          word_frequencies, document_frequencies, store,
                          db_ok, query, k)

\* keyword_search(query, k) of the engine in use
keyword_search(query, k, db_ok) ==
    (IF impl = "sqlite"
     THEN Sq_keyword_search(documents, store, db_ok, query, k)
            @@ [raised |-> FALSE]
     ELSE Pg_keyword_search(store, db_ok, query, k))
    @@ [wf |-> word_frequencies, em |-> embedding_model]

SearchSimilar ==
    /\ UNCHANGED response
    /\ \E query \in Queries, k \in Ks, call_ok \in CallOutcomes, db_ok \in BOOLEAN :
        Returned("search_similar", query, k, call_ok, db_ok,
                 search_similar(query, k, call_ok, db_ok))

VectorSearch ==
    /\ UNCHANGED response
    /\ \E query \in Queries, k \in Ks, call_ok \in CallOutcomes, db_ok \in BOOLEAN :
        Returned("vector_search", query, k, call_ok, db_ok,
                 vector_search(query, k, call_ok, db_ok))

KeywordSearch ==
    /\ UNCHANGED response
    /\ \E query \in Queries, k \in Ks, db_ok \in BOOLEAN :
        Returned("keyword_search", query, k, FALSE, db_ok,
                 keyword_search(query, k, db_ok))

\* the caller takes what the call returned; the engine is idle again
Return ==
    /\ last # NoCall
    /\ last' = NoCall
    /\ UNCHANGED <<impl, provider_env, store, documents, word_frequencies,
                   document_frequencies, embedding_model, in_flight, response>>

Next ==
    \/ AddDocument
    \/ ForeignInsert
    \/ Restart
    \/ ProviderConfigured
    \/ SearchSimilar
    \/ VectorSearch
    \/ KeywordSearch
    \/ Return

Spec == Init /\ [][Next]_vars

\* ------------------------------------------------ concurrent add_document calls
\* Callers of add_document on one engine instance, each in a thread of its
\* own.  No lock is taken anywhere in add_document or _update_frequencies:
\* the INSERT is serialised by the database, and
\* self.document_frequencies[word] += 1 is a read of the counter followed by
\* a write, between which another thread may run.
NCallers == 2

Callers == 1..NCallers

\* the keys of Counter(words), in the order of first occurrence
RECURSIVE distinct_words(_)
distinct_words(words) ==
    IF words = <<>> THEN <<>>
    ELSE LET w == words[Len(words)]
             front == SubSeq(words, 1, Len(words) - 1)
         IN IF w \in Range(front) THEN distinct_words(front)
            ELSE Append(distinct_words(front), w)

\* add_document up to the call of _update_frequencies: the embedding, the
\* INSERT (the row gets the next id) and, in HybridVectorSearch, the append
\* to self.documents
BeginAdd(c, content, metadata, call_ok) ==
    LET sq == Sq_encode(embedding_model, provider_env, call_ok, content)
        em1 == Pg_get_embedding_model(embedding_model, provider_env)
        embedding == IF impl = "sqlite" THEN sq.embedding
                     ELSE Pg_encode(em1, call_ok, content)
        doc_id == next_id
        words == tokenize(content)
    IN  /\ c \notin DOMAIN in_flight
        /\ Len(store) < MaxDocs
        /\ embedding_model' = (IF impl = "sqlite" THEN sq.em ELSE em1)
        /\ store' = Append(store, [id |-> doc_id, content |-> content,
                                   embedding |-> embedding,
                                   metadata |-> metadata])
        /\ documents' = (IF impl = "sqlite"
                         THEN Append(documents, <<doc_id, content>>)
                         ELSE documents)
        /\ in_flight' = SetKey(in_flight, c,
                               [doc_id |-> doc_id,
                                word_counts |-> Counter(words),
                                words |-> distinct_words(words),
                                pc |-> "read", loaded |-> 0])
        /\ UNCHANGED <<impl, provider_env, word_frequencies,
                       document_frequencies, last, response>>

\* one pass of the loop of _update_frequencies up to the read of the counter:
\* self.word_frequencies[doc_id][word] = count, then the left-hand read of
\* self.document_frequencies[word] += 1
ReadCounter(c) ==
    /\ c \in DOMAIN in_flight
    /\ in_flight[c].pc = "read"
    /\ in_flight[c].words # <<>>
    /\ LET call == in_flight[c]
           word == Head(call.words)
           counts == Get(word_frequencies, call.doc_id, EmptyDict)
       IN  /\ word_frequencies' =
                 SetKey(word_frequencies, call.doc_id,
                        SetKey(counts, word, call.word_counts[word]))
           /\ in_flight' =
                 [in_flight EXCEPT ![c].loaded =
                                       Get(document_frequencies, word, 0),
                                   ![c].pc = "write"]
    /\ UNCHANGED <<impl, provider_env, store, documents,
                   document_frequencies, embedding_model, last, response>>

\* the store of self.document_frequencies[word] += 1
WriteCounter(c) ==
    /\ c \in DOMAIN in_flight
    /\ in_flight[c].pc = "write"
    /\ LET call == in_flight[c]
       IN  /\ document_frequencies' =
                 SetKey(document_frequencies, Head(call.words),
                        call.loaded + 1)
           /\ in_flight' = [in_flight EXCEPT ![c].words = Tail(call.words),
                                             ![c].pc = "read"]
    /\ UNCHANGED <<impl, provider_env, store, documents, word_frequencies,
                   embedding_model, last, response>>

\* the loop is over: add_document returns the id
ReturnAdd(c) ==
    /\ c \in DOMAIN in_flight
    /\ in_flight[c].pc = "read"
    /\ in_flight[c].words = <<>>
    /\ in_flight' = [x \in DOMAIN in_flight \ {c} |-> in_flight[x]]
    /\ UNCHANGED <<impl, provider_env, store, documents, word_frequencies,
                   document_frequencies, embedding_model, last, response>>

CallerBegins ==
    \E c \in Callers, doc \in Documents, call_ok \in CallOutcomes :
        BeginAdd(c, doc[1], doc[2], call_ok)

CallerReads == \E c \in Callers : ReadCounter(c)

CallerWrites == \E c \in Callers : WriteCounter(c)

CallerReturns == \E c \in Callers : ReturnAdd(c)

NextConcurrent ==
    \/ CallerBegins
    \/ CallerReads
    \/ CallerWrites
    \/ CallerReturns

SpecConcurrent == Init /\ [][NextConcurrent]_vars

\* ------------------------------------------------ the plugin's /search endpoints
\* chatgpt_plugin_api.py serves GET /search and POST /search over one
\* PostgresHybridVectorSearch; the table is filled by the indexer scripts.
\* The status is the one the handler decides; the serialisation of the answer
\* is not modelled.

\* the query strings of the requests, the empty string among them
PluginQueries == Queries \cup {<<>>}

\* max_results of the requests, around the limits declared for GET /search
PluginMaxResults == {0, 1, 20, 21}

SearchTypes == {"hybrid", "vector", "keyword"}

\* str.strip() for the blank character
RECURSIVE strip(_)
strip(text) ==
    IF text = <<>> THEN text
    ELSE IF Head(text) = " " THEN strip(Tail(text))
    ELSE IF text[Len(text)] = " " THEN strip(SubSeq(text, 1, Len(text) - 1))
    ELSE text

\* the engine call of search_database for the search type
engine_search(search_type, query, max_results, call_ok, db_ok) ==
    IF search_type = "vector"
    THEN vector_search(query, max_results, call_ok, db_ok)
    ELSE IF search_type = "keyword"
    THEN keyword_search(query, max_results, db_ok)
    ELSE search_similar(query, max_results, call_ok, db_ok)

engine_op(search_type) ==
    IF search_type = "vector" THEN "vector_search"
    ELSE IF search_type = "keyword" THEN "keyword_search"
    ELSE "search_similar"

\* the body of search_database.  The HTTPException raised for a blank query
\* is raised inside the try block, whose except Exception clause catches it
\* and raises a 500.
search_database(method, query, max_results, search_type, call_ok, db_ok) ==
    \/ /\ strip(query) = <<>>
       /\ response' =
             [method |-> method, query |-> query, max_results |-> max_results,
              status |-> 500,
              detail |-> "Search error: 400: Query cannot be empty",
              engine_called |-> FALSE]
       /\ UNCHANGED <<impl, provider_env, store, documents,
                      word_frequencies, document_frequencies,
                      embedding_model, last, in_flight>>
    \/ /\ strip(query) # <<>>
       /\ Returned(engine_op(search_type), query, max_results, call_ok, db_ok,
                   engine_search(search_type, query, max_results, call_ok,
                                 db_ok))
       /\ response' =
             [method |-> method, query |-> query, max_results |-> max_results,
              status |-> IF last'.raised THEN 500 ELSE 200,
              detail |-> IF last'.raised THEN "Search error" ELSE "",
              engine_called |-> TRUE]

\* GET /search: max_results is declared Query(5, ge=1, le=20), so a value
\* outside 1..20 is answered 422 before the handler runs
SearchGet ==
    /\ last = NoCall
    /\ response = NoResponse
    /\ \E query \in PluginQueries, max_results \in PluginMaxResults :
       \E search_type \in SearchTypes, call_ok \in CallOutcomes, db_ok \in BOOLEAN :
          \/ /\ max_results < 1 \/ max_results > 20
             /\ response' = [NoResponse EXCEPT !.method = "GET",
                                               !.query = query,
                                               !.max_results = max_results,
                                               !.status = 422]
             /\ UNCHANGED <<impl, provider_env, store, documents,
                            word_frequencies, document_frequencies,
                            embedding_model, last, in_flight>>
          \/ /\ max_results >= 1 /\ max_results <= 20
             /\ search_database("GET", query, max_results, search_type,
                                call_ok, db_ok)

\* POST /search: SearchRequest declares max_results: Optional[int] = 5 with
\* no limits, and search_database_post calls search_database as a function
SearchPost ==
    /\ last = NoCall
    /\ response = NoResponse
    /\ \E query \in PluginQueries, max_results \in PluginMaxResults :
       \E search_type \in SearchTypes, call_ok \in CallOutcomes, db_ok \in BOOLEAN :
          search_database("POST", query, max_results, search_type,
                          call_ok, db_ok)

\* the answer is sent
PluginReturn ==
    /\ response # NoResponse
    /\ response' = NoResponse
    /\ last' = NoCall
    /\ UNCHANGED <<impl, provider_env, store, documents, word_frequencies,
                   document_frequencies, embedding_model, in_flight>>

InitPlugin == Init /\ impl = "postgres"

NextPlugin ==
    \/ ForeignInsert
    \/ SearchGet
    \/ SearchPost
    \/ PluginReturn

SpecPlugin == InitPlugin /\ [][NextPlugin]_vars

\* ===========================================================================
\* Properties
\* ===========================================================================
Rows == {store[i] : i \in 1..Len(store)}

Results == {last.results[i] : i \in 1..Len(last.results)}

Ranked == {last.ranked[i] : i \in 1..Len(last.ranked)}

IsSearch == last.op \in SearchOps

VectorTags == {"vector_tensorflow", "vector_cohere"}
HybridTags == {"hybrid_tensorflow", "hybrid_cohere"}
LexicalTags == {"hybrid_tfidf"}

\* the token "cat"
Cat == <<"c","a","t">>

\* the documents that went through _update_frequencies and hold a term:
\* self.documents in HybridVectorSearch; in PostgresHybridVectorSearch the rows
\* whose id has counts in word_frequencies
IndexedDocs ==
    IF impl = "sqlite" THEN Range(documents)
    ELSE {<<r.id, r.content>> : r \in
            {x \in Rows : x.id \in DOMAIN word_frequencies
                          /\ DOMAIN word_frequencies[x.id] # {}}}

KnownTerms ==
    DOMAIN document_frequencies
    \cup UNION {Range(tokenize(d[1])) : d \in Documents}

\* C1: for every term t, document_frequencies[t] is the number of indexed
\* documents whose tokenized content holds t at least once (one increment per
\* distinct term of a document, not one per occurrence).
C1_DocumentFrequencyCountsDocuments ==
    \A t \in KnownTerms :
        Get(document_frequencies, t, 0)
          = Cardinality({d \in IndexedDocs : t \in Range(tokenize(d[2]))})

\* C1 witness: add_document has indexed a second document that holds "cat"
\* twice; the counter of "cat" stands at 2.
C1_Witness ==
    /\ last.op = "add_document"
    /\ ~last.raised
    /\ Get(document_frequencies, Cat, 0) = 2
    /\ \E d \in IndexedDocs : Counter(tokenize(d[2]))[Cat] = 2

\* C2: after add_document returns or raises, the rows of the documents table
\* are exactly the documents counted in the frequency index.
C2_StoreMatchesIndex ==
    last.op = "add_document" =>
        IF impl = "sqlite"
        THEN {r.id : r \in Rows} = {d[1] : d \in Range(documents)}
        ELSE /\ \A r \in Rows :
                   tokenize(r.content) # <<>> =>
                       /\ r.id \in DOMAIN word_frequencies
                       /\ word_frequencies[r.id] = Counter(tokenize(r.content))
             /\ \A id \in DOMAIN word_frequencies : \E r \in Rows : r.id = id

\* ---------------------------------------------------------------------------
\* the lexical ranking of the whole table, from the texts alone: N is the
\* number of rows, the document frequency of a term the number of rows that
\* hold it
TableDf ==
    [t \in KnownTerms |->
        Cardinality({r \in Rows : t \in Range(tokenize(r.content))})]

TableLexicalScore(query_words, row) ==
    (LexTfidfWeight * tfidf_sum(query_words, Counter(tokenize(row.content)),
                                TableDf, Len(store))
     + LexKeywordWeight * calculate_keyword_score(query_words, row.content))
    \div 100

TableLexicalRanking(query) ==
    LET query_words == tokenize(query)
        scored == [i \in 1..Len(store) |->
                     [id |-> store[i].id,
                      score |-> TableLexicalScore(query_words, store[i])]]
    IN  IF query_words = <<>> THEN <<>>
        ELSE sort_by_score(SelectSeq(scored,
                                     LAMBDA r : keeps_lexical(r.score)))

IdsAndScores(results) ==
    [i \in 1..Len(results) |->
        [id |-> results[i].id, score |-> results[i].score]]

\* C3: with the provider unavailable, search_similar returns exactly the
\* list obtained by scoring every stored document with
\* 0.7 * tfidf + 0.3 * keyword, keeping scores above 0, sorting descending
\* and truncating to k, each result tagged lexical-fallback.
C3_UnavailableProviderGivesLexicalRanking ==
    (last.op = "search_similar" /\ ~last.able /\ last.db_ok) =>
        /\ ~last.raised
        /\ IdsAndScores(last.results)
             = truncate(TableLexicalRanking(last.query), last.k)
        /\ \A r \in Results : r.search_type \in LexicalTags

\* C4: whenever the provider is able to produce the query embedding,
\* search_similar does not answer from the lexical path, whatever operations
\* (or none) came before.
C4_AbleProviderNeverLexical ==
    (last.op = "search_similar" /\ last.able /\ last.db_ok) =>
        last.path # "lexical"

\* the part of the hybrid score that does not depend on an embedding
HybridLexicalPart(query_words, row) ==
    IF impl = "sqlite"
    THEN (SqTfidfWeight
            * Sq_calculate_tfidf_score(word_frequencies, document_frequencies,
                                       Len(documents), query_words,
                                       row.id).score
          + SqKeywordWeight
            * calculate_keyword_score(query_words, row.content)) \div 100
    ELSE (PgTfidfWeight
            * Pg_calculate_tfidf_score(word_frequencies, document_frequencies,
                                       query_words, row.id).score
          + PgKeywordWeight
            * calculate_keyword_score(query_words, row.content)) \div 100

\* C5: in hybrid mode a document with no stored embedding is scored with a
\* vector score of 0 and is in the ranking when its combined score exceeds
\* the threshold.
C5_HybridScoresDocumentsWithoutEmbedding ==
    (last.op = "search_similar" /\ last.path = "hybrid") =>
        \A row \in Rows :
            (/\ row.embedding = NoEmbedding
             /\ keeps_hybrid(HybridLexicalPart(tokenize(last.query), row)))
            => \E r \in Ranked : r.id = row.id

\* C6: no search entry point returns a result whose score is at or below the
\* threshold of the path that produced it: 0.1 when a vector score took part,
\* 0 on the lexical and keyword paths.
C6_NoResultAtOrBelowThreshold ==
    IsSearch =>
        \A r \in Results :
            /\ r.score # NaN
            /\ IF r.search_type \in VectorTags \cup HybridTags
               THEN r.score > MinVectorScore
               ELSE r.score > MinLexicalScore

\* C6 witness: a hybrid search returns a document and leaves out another one
\* that the threshold rejected.
C6_Witness ==
    /\ last.op = "search_similar"
    /\ last.path = "hybrid"
    /\ last.k = 2
    /\ Len(last.results) = 1
    /\ Len(with_embedding(store)) = 2

\* C7 as stated: for every integer k the list has at most k elements, and
\* when fewer than k documents clear the threshold all of them are returned.
C7_AtMostKForEveryInteger ==
    (IsSearch /\ ~last.raised) =>
        /\ Len(last.results) <= last.k
        /\ (Len(last.ranked) < last.k => last.results = last.ranked)

\* C7: for every integer k >= 0 the list has at most k elements, it is the
\* head of the ranking, and when no more than k documents clear the threshold
\* all of them are returned; for k < 0 the list is the ranking without its
\* last -k elements.
C7_AtMostKForNonNegativeK ==
    (IsSearch /\ ~last.raised) =>
        IF last.k >= 0
        THEN /\ Len(last.results) <= last.k
             /\ last.results = Take(last.ranked, Len(last.results))
             /\ (Len(last.ranked) <= last.k => last.results = last.ranked)
        ELSE /\ Len(last.ranked) + last.k >= 0
                => last.results = Take(last.ranked, Len(last.ranked) + last.k)
             /\ Len(last.ranked) + last.k < 0 => last.results = <<>>

\* C7 witness: two documents clear the threshold and k = 1 keeps the first.
C7_Witness ==
    /\ IsSearch
    /\ last.k = 1
    /\ Len(last.ranked) = 2
    /\ last.results = <<last.ranked[1]>>

\* C8: a call with k <= 0 does not raise and returns what the same call with
\* k = 1 returns.
C8_NonPositiveKBehavesAsOne ==
    (IsSearch /\ last.k <= 0 /\ last.db_ok) =>
        /\ ~last.raised
        /\ last.results = truncate(last.ranked, 1)

IsVectorPartOnly(r) ==
    \E row \in Rows :
        /\ row.id = r.id
        /\ row.embedding # NoEmbedding
        /\ r.score =
             ((IF impl = "sqlite" THEN SqVectorWeight ELSE PgVectorWeight)
                * max0(cosine_similarity(embed(last.query), row.embedding)))
             \div 100

IsPureVectorResult(r) ==
    /\ r.search_type \in VectorTags
    /\ \E row \in Rows :
          /\ row.id = r.id
          /\ row.embedding # NoEmbedding
          /\ r.score = cosine_similarity(embed(last.query), row.embedding)

\* C10 as stated: every result of vector_search belongs to a document with a
\* stored embedding and is scored by cosine similarity alone, in any provider
\* state.
C10_VectorSearchOnlyVectorResults ==
    last.op = "vector_search" => \A r \in Results : IsPureVectorResult(r)

\* C10: when vector_search obtains a query embedding and its scan succeeds,
\* every result belongs to a document with a stored embedding and is scored
\* by cosine similarity alone; in every other case the call answers through
\* search_similar and every result carries the hybrid or the lexical tag.
C10_VectorPathOnlyVectorResults ==
    last.op = "vector_search" =>
        IF last.path = "vector"
        THEN \A r \in Results : IsPureVectorResult(r)
        ELSE \A r \in Results : r.search_type \in HybridTags \cup LexicalTags

\* C10 witness: vector_search over a table with one embedded and one
\* unembedded document returns the embedded one.
C10_Witness ==
    /\ last.op = "vector_search"
    /\ last.path = "vector"
    /\ Len(last.results) = 1
    /\ \E row \in Rows : row.embedding = NoEmbedding
    /\ \E row \in Rows : row.embedding # NoEmbedding

\* C11: when the fetch from the document store fails during a search call,
\* the call returns the empty list and no exception reaches the caller.
C11_FailedFetchGivesEmptyList ==
    (IsSearch /\ ~last.db_ok) =>
        /\ ~last.raised
        /\ last.results = <<>>

\* C12: when the store write fails, add_document raises; it never returns
\* normally for a document that was not persisted.
C12_FailedWriteRaises ==
    last.op = "add_document" =>
        /\ ~last.db_ok => last.raised
        /\ ~last.raised => \E row \in Rows : row.id = last.doc_id

\* C12 witness: an add_document call on a non-empty table has raised on a
\* failed write and left the table as it was.
C12_Witness ==
    /\ last.op = "add_document"
    /\ ~last.db_ok
    /\ last.raised
    /\ Len(store) = 1
    /\ IndexedDocs # {}

\* C13: when the embedding provider errors or gives no embedding for the
\* query during a hybrid search call, the call returns the lexical-only list
\* and raises nothing to the caller.
C13_ProviderFailureGivesLexicalList ==
    (last.op = "search_similar" /\ ~last.able) =>
        /\ ~last.raised
        /\ last.path \in {"lexical", "empty"}
        /\ \A r \in Results : r.search_type \in LexicalTags

\* the instance has looked for its embedding provider and found none
NoProvider == {"no_model", "no_client"}

\* C14: once an engine instance has found that no embedding provider is
\* configured, it stays in that state, and every later search_similar on the
\* instance is answered without the vector path; only a new instance looks
\* for the provider again.
C14_LexicalModeIsPermanent ==
    [][Restart
       \/ (embedding_model \in NoProvider =>
             /\ embedding_model' = embedding_model
             /\ last'.op = "search_similar" =>
                   /\ last'.path # "hybrid"
                   /\ \A i \in 1..Len(last'.results) :
                         last'.results[i].search_type \in LexicalTags)]_vars

\* C14 witness: the provider was configured after the instance had found
\* none; a search that the provider could serve is answered lexically.
C14_Witness ==
    /\ impl = "postgres"
    /\ embedding_model = "no_client"
    /\ provider_env = "yes"
    /\ last.op = "search_similar"
    /\ last.able
    /\ last.path = "lexical"
    /\ last.results # <<>>
    /\ with_embedding(store) # <<>>

\* C15: every search result that returns a document added with add_document
\* carries, on every scoring path, the metadata that was supplied at insert
\* (the empty dict when none was supplied).
C15_MetadataCarriedUnmodified ==
    (IsSearch /\ last.db_ok) =>
        \A r \in Results : \A row \in Rows :
            (row.id = r.id /\ row.id \in {d[1] : d \in IndexedDocs})
            => r.metadata = metadata_or_empty(row.metadata)

IndexedIds == {d[1] : d \in IndexedDocs}

\* the indexed rows that hold the same content as the document just added
Twins ==
    {i \in 1..Len(store) :
        /\ store[i].id \in IndexedIds
        /\ store[i].content = row_of(store, last.doc_id).content}

\* C16: add_document gives every document an id of its own, and after the
\* same content was added again every term of it is counted once per copy:
\* its document frequency is the number of copies (2 after the second add)
\* when no other document holds the term.
C16_SameContentTwiceCountsTwice ==
    (last.op = "add_document" /\ ~last.raised) =>
        /\ Cardinality({i \in 1..Len(store) : store[i].id = last.doc_id}) = 1
        /\ \A t \in Range(tokenize(row_of(store, last.doc_id).content)) :
              /\ Get(document_frequencies, t, 0) >= Cardinality(Twins)
              /\ (\A d \in IndexedDocs :
                     t \in Range(tokenize(d[2]))
                     => \E i \in Twins : store[i].id = d[1])
                 => Get(document_frequencies, t, 0) = Cardinality(Twins)

\* C16 witness: "Cat cat dog" was added twice, under two ids, and both of its
\* terms have document frequency 2.
C16_Witness ==
    /\ last.op = "add_document"
    /\ ~last.raised
    /\ Len(store) = 2
    /\ store[1].content = DocCats
    /\ store[2].content = DocCats
    /\ store[1].id # store[2].id
    /\ last.doc_id = store[2].id
    /\ Cardinality(Twins) = 2
    /\ document_frequencies[Cat] = 2
    /\ document_frequencies[<<"d","o","g">>] = 2

C18_NoIncrementLostUnderInterleaving ==
    in_flight = EmptyDict =>
        \A t \in KnownTerms :
            Get(document_frequencies, t, 0)
              = Cardinality({d \in IndexedDocs : t \in Range(tokenize(d[2]))})


\* the total document counts read by _calculate_tfidf_score, document by
\* document, in the scoring pass of _tfidf_keyword_search for the query,
\* started in the current state
lexical_total_docs(query) ==
    IF impl = "sqlite"
    THEN Sq_lexical_loop(documents, Len(documents), tokenize(query),
                         word_frequencies, document_frequencies, store,
                         TRUE).total_docs
    ELSE Pg_lexical_loop(store, tokenize(query), word_frequencies,
                         document_frequencies).total_docs

\* C19: within one search call the total document count N used in idf is the
\* same for the first and for the last document scored: in a search_similar
\* call that goes straight to the lexical scoring pass, every document is
\* scored with the N of the first one.
C19_SameTotalDocsForEveryDocumentScored ==
    [][(/\ last = NoCall
        /\ last'.op = "search_similar"
        /\ ~last'.able /\ last'.db_ok /\ last'.path = "lexical"
        /\ tokenize(last'.query) # <<>>)
       => LET total_docs == lexical_total_docs(last'.query)
          IN \A i \in DOMAIN total_docs : total_docs[i] = total_docs[1]]_vars


\* the lengths of the embeddings stored in the documents table
StoredDimensions == {Len(row.embedding) : row \in Range(with_embedding(store))}

\* C20: add_document rejects a document whose embedding length differs from
\* the length already used in the corpus: after an add_document call that did
\* not raise, all stored embeddings have one length.
C20_AddDocumentKeepsOneDimension ==
    (last.op = "add_document" /\ ~last.raised) =>
        Cardinality(StoredDimensions) <= 1


\* C21: an add_document call whose write succeeds does not raise, whether or
\* not the provider produced an embedding; its row is stored and its terms are
\* in the frequency index; the row has an embedding only if the provider was
\* able to produce one in that call.
C21_AddDocumentWithoutProvider ==
    (last.op = "add_document" /\ last.db_ok) =>
        /\ ~last.raised
        /\ \E row \in Rows :
              /\ row.id = last.doc_id
              /\ row.embedding # NoEmbedding => last.able
              /\ LET word_counts == Counter(tokenize(row.content))
                 IN  \A w \in DOMAIN word_counts :
                        /\ row.id \in DOMAIN word_frequencies
                        /\ w \in DOMAIN word_frequencies[row.id]
                        /\ word_frequencies[row.id][w] = word_counts[w]
                        /\ Get(document_frequencies, w, 0) >= 1

\* a document with terms was added while the provider was not able
C21_Witness ==
    /\ last.op = "add_document" /\ last.db_ok /\ ~last.able /\ ~last.raised
    /\ \E row \in Rows :
          /\ row.id = last.doc_id
          /\ row.embedding = NoEmbedding
          /\ tokenize(row.content) # <<>>
          /\ row.id \in DOMAIN word_frequencies


\* the index a new engine instance builds over the table as it is
startup_scan == load_existing_documents(store, <<>>, EmptyDict, EmptyDict)

\* the ranking of _tfidf_keyword_search for the query, before truncation,
\* computed from the given index
lexical_ranking(docs, wf, df, query) ==
    IF impl = "sqlite"
    THEN Sq_tfidf_keyword_search(docs, wf, df, store, TRUE, query, 1).ranked
    ELSE Pg_tfidf_keyword_search(wf, df, store, TRUE, query, 1).ranked

\* the engine holds the term counts and the document frequencies that
\* add_document calls for exactly the stored rows leave behind
AddedOneByOne ==
    /\ document_frequencies = startup_scan.df
    /\ DOMAIN word_frequencies \subseteq {row.id : row \in Rows}
    /\ \A row \in Rows :
          Get(word_frequencies, row.id, EmptyDict)
            = Get(startup_scan.wf, row.id, EmptyDict)
    /\ impl = "sqlite" => documents = startup_scan.documents

\* C22: an engine built from scratch over the store gives the same scores for
\* every query as the engine that added the same documents one by one and
\* holds the same term counts and document frequencies.
C22_StartupScanGivesSameScores ==
    (last = NoCall /\ AddedOneByOne) =>
        \A query \in Queries :
            lexical_ranking(documents, word_frequencies,
                            document_frequencies, query)
              = lexical_ranking(startup_scan.documents, startup_scan.wf,
                                startup_scan.df, query)


\* the maximal runs of letters of s from position i on, in order
RECURSIVE MaximalLetterRuns(_, _)
MaximalLetterRuns(s, i) ==
    IF i > Len(s) THEN <<>>
    ELSE IF IsLetter(s[i])
         THEN LET j == LetterRunEnd(s, i)
              IN <<SubSeq(s, i, j - 1)>> \o MaximalLetterRuns(s, j)
         ELSE MaximalLetterRuns(s, i + 1)

\* the tokens the description gives: the lower-cased maximal runs of letters
\* that are longer than 2
LongLetterRuns(text) ==
    SelectSeq(MaximalLetterRuns(lower_text(text), 1), LAMBDA w : Len(w) > 2)

\* C23: tokenize(text) is the sequence of lower-cased maximal runs of letters
\* of length greater than 2, also when letters stand next to digits or
\* underscores: the tokens of the query of a search and the terms indexed for
\* a document by add_document are those runs.
C23_TokensAreMaximalLetterRuns ==
    /\ IsSearch => tokenize(last.query) = LongLetterRuns(last.query)
    /\ (last.op = "add_document" /\ ~last.raised) =>
          \A row \in Rows :
              row.id = last.doc_id =>
                  /\ tokenize(row.content) = LongLetterRuns(row.content)
                  /\ Get(word_frequencies, row.id, EmptyDict)
                       = Counter(LongLetterRuns(row.content))


\* the overlap the description gives: distinct query tokens found in the
\* lower-cased text, over the number of distinct query tokens
DistinctOverlap(query_words, content) ==
    LET distinct == Range(query_words)
        present == {w \in distinct : IsSubstring(w, lower_text(content))}
    IN  IF distinct = {} THEN 0
        ELSE (Cardinality(present) * Scale) \div Cardinality(distinct)

\* C24: the keyword overlap score of a document is the number of distinct
\* query tokens contained in its lower-cased text divided by the number of
\* distinct query tokens: every hit of keyword_search carries that score.
C24_KeywordScoreCountsDistinctTokens ==
    (last.op = "keyword_search" /\ last.path = "keyword") =>
        \A r \in Ranked : \A row \in Rows :
            row.id = r.id =>
                r.score = DistinctOverlap(tokenize(last.query), row.content)


\* the TF-IDF score the description gives for a stored document, from the
\* engine's term counts and document frequencies, with N the number of
\* documents in the corpus
CorpusTfidf(query_words, row) ==
    tfidf_sum(query_words, Get(word_frequencies, row.id, EmptyDict),
              document_frequencies, Len(store))

\* C25: the TF-IDF score of a document is the sum over the query tokens it
\* holds of (count / total terms) * ln(N / document frequency), N being the
\* number of documents in the corpus: every result of the lexical ranking
\* carries 0.7 times that sum plus 0.3 times its keyword score.
C25_TfidfUsesNumberOfDocuments ==
    (last.op = "search_similar" /\ last.path = "lexical" /\ last.db_ok) =>
        \A r \in Ranked : \A row \in Rows :
            row.id = r.id =>
                r.score
                  = (LexTfidfWeight
                       * CorpusTfidf(tokenize(last.query), row)
                     + LexKeywordWeight
                       * calculate_keyword_score(tokenize(last.query),
                                                 row.content)) \div 100


\* the call produced a query embedding
QueryEmbeddingProduced ==
    /\ last.able
    /\ embedding_model = (IF impl = "sqlite" THEN "model" ELSE "client")

\* the stored rows whose embedding is a zero vector
ZeroRows == {row \in Rows : row.embedding # NoEmbedding /\ Norm(row.embedding) = 0}

\* C26: a zero vector among the stored embeddings, or as the query embedding,
\* raises no division error and does not make the search leave the vector
\* path: the call stays on the hybrid (search_similar) or vector
\* (vector_search) path, the zero-vector document gets no vector score (it is
\* no result of vector_search, and a hybrid result only with its lexical
\* score), and the other documents are scored as usual.
C26_ZeroVectorScoresZero ==
    (/\ last.op \in {"search_similar", "vector_search"}
     /\ QueryEmbeddingProduced /\ last.db_ok
     /\ impl = "sqlite" => documents # <<>>
     /\ ZeroRows # {} \/ Norm(embed(last.query)) = 0
     /\ StoredDimensions \subseteq {Len(embed(last.query))})
    => /\ ~last.raised
       /\ last.path = (IF last.op = "vector_search" THEN "vector" ELSE "hybrid")
       /\ \A r \in Ranked : r.score # NaN
       /\ \A r \in Ranked : \A row \in ZeroRows :
             row.id = r.id =>
                 /\ last.op # "vector_search"
                 /\ r.score = HybridLexicalPart(tokenize(last.query), row)

\* a hybrid search over a zero-vector row and a row with a usual embedding
\* returned the latter with its hybrid score
C26_Witness ==
    /\ last.op = "search_similar" /\ QueryEmbeddingProduced /\ last.db_ok
    /\ ZeroRows # {}
    /\ last.path = "hybrid"
    /\ \E r \in Results : r.search_type \in HybridTags
                          /\ \A row \in ZeroRows : row.id # r.id


\* C27: every search that reaches the engine through GET /search or
\* POST /search has a result count k with 1 <= k <= 20.
C27_PluginResultCountInRange ==
    response.engine_called => (last.k >= 1 /\ last.k <= 20)

\* C28: the /search endpoint answers a blank query (empty or whitespace only)
\* with status 400 and detail "Query cannot be empty", without calling the
\* search engine.
C28_BlankQueryAnswered400 ==
    (/\ response # NoResponse
     /\ response.status # 422
     /\ \A i \in 1..Len(response.query) : response.query[i] = " ")
    => /\ response.status = 400
       /\ response.detail = "Query cannot be empty"
       /\ ~response.engine_called


\* the document count N that _calculate_tfidf_score reads in the current state
TotalDocs ==
    IF impl = "sqlite" THEN Len(documents)
    ELSE Cardinality(DOMAIN word_frequencies)

\* C29: a search call changes no state that affects scoring: the term counts
\* of every stored document, the document frequencies and the document count
\* N used in idf are the same after the call as before it.
C29_SearchLeavesScoringStateUnchanged ==
    [][(last = NoCall /\ last'.op \in SearchOps)
       => /\ document_frequencies' = document_frequencies
          /\ \A row \in Rows :
                Get(word_frequencies', row.id, EmptyDict)
                  = Get(word_frequencies, row.id, EmptyDict)
          /\ TotalDocs' = TotalDocs]_vars


\* the rows _hybrid_embedding_search scans
HybridScanned == IF impl = "sqlite" THEN store ELSE with_embedding(store)

\* a search_similar call produced a query embedding, scored the first row it
\* scanned and then met a stored embedding of another length
HybridFailedMidway ==
    /\ last.op = "search_similar" /\ QueryEmbeddingProduced /\ last.db_ok
    /\ impl = "sqlite" => documents # <<>>
    /\ HybridScanned # <<>>
    /\ Len(HybridScanned[1].embedding) \in {0, Len(embed(last.query))}
    /\ \E i \in 2..Len(HybridScanned) :
          Len(HybridScanned[i].embedding)
            \notin {0, Len(embed(last.query))}

\* C30: all results of one returned list carry the same scoring-path tag;
\* when hybrid scoring fails after some documents were scored, the list holds
\* lexical-fallback results only.
C30_OneTagPerList ==
    IsSearch =>
        /\ \A r1 \in Ranked \cup Results : \A r2 \in Ranked \cup Results :
              r1.search_type = r2.search_type
        /\ HybridFailedMidway =>
              /\ last.path = "lexical"
              /\ \A r \in Results : r.search_type \in LexicalTags

\* hybrid scoring failed on the second row and the call returned lexical
\* results
C30_Witness ==
    /\ HybridFailedMidway
    /\ last.path = "lexical"
    /\ last.results # <<>>
    /\ HybridScanned[1].embedding # NoEmbedding

=============================================================================
